---- MODULE Spec2Model ----
(***************************************************************************)
(* Model of pip/commands/cache.py: the "pip cache" command.  One command   *)
(* invocation acts on a cache root holding an http cache (<root>/http)     *)
(* and a wheel cache (<root>/wheels).  Paths, file names and glob patterns *)
(* are sequences of one-character strings, so that os.path.join, basename  *)
(* and fnmatch are computed rather than assumed.                           *)
(***************************************************************************)
EXTENDS Integers, Sequences, FiniteSets

VARIABLES
    fs,        \* set of paths of the regular files that exist
    kind,      \* what each cache location is: "dir", "symlink", "file", "absent"
    locked,    \* paths whose removal the operating system refuses (OSError)
    pc,        \* position of the command: "idle", "rm_loop", "rm_unlink", "purge_loop", "done"
    action,    \* args[0] of run(), "none" when args is empty
    ctype,     \* options.type
    targets,   \* args[1:]
    i,         \* index of the loop over targets (rm) or over caches (purge)
    matches,   \* rm: matches of the current target not yet unlinked
    value,     \* the status accumulated by rm and purge
    result,    \* what run() returned: "SUCCESS", "ERROR", "None"; "unset" before
    raised,    \* exception that left run(): "", "CommandError", "OSError"
    log,       \* records handed to logger.info / logger.warning, in order
    ops,       \* history: filesystem calls started by the command, in order
    fs0,       \* history: fs when the command was invoked
    kind0,     \* history: kind when the command was invoked
    raced      \* history: files a concurrent writer deleted under a running rm

vars == <<fs, kind, locked, pc, action, ctype, targets, i, matches, value,
          result, raised, log, ops, fs0, kind0, raced>>

----------------------------------------------------------------------------
(* Bounds and the inputs drawn from them *)

MaxTargets == 2

Root == <<"r">>

FOO_WHL == <<"f","o","o",".","w","h","l">>
BAR_WHL == <<"b","a","r",".","w","h","l">>
FOO_TXT == <<"f","o","o",".","t","x","t">>
AB      == <<"a","b">>
SUBDIR  == <<"d">>

Patterns == { <<"f","o","o","*">>,
              <<"*">>,
              <<"?","a","r","*">>,
              <<"*",".","t","x","t">>,
              <<"z","z">> }

ActionNames == {"none", "bogus", "info", "list", "rm", "purge"}

RECURSIVE SeqsUpTo(_, _)
SeqsUpTo(S, n) ==
    IF n = 0 THEN { <<>> }
    ELSE LET shorter == SeqsUpTo(S, n - 1)
         IN  shorter \cup { Append(s, x) : s \in shorter, x \in S }

----------------------------------------------------------------------------
(* Status codes and the command's tables *)

SUCCESS == "SUCCESS"
ERROR   == "ERROR"

actions == {"info", "list", "rm", "purge"}

cache_types == {"all", "http", "wheel"}

suffix == [wheel |-> <<"w","h","e","e","l","s">>, http |-> <<"h","t","t","p">>]

(* os.path.join on two relative-free components *)
join(a, b) == a \o <<"/">> \o b

get_cache_location_swapped(cache_root, cache_type) ==
    IF cache_type # "all" THEN join(cache_root, suffix["http"]) ELSE cache_root

get_cache_location(cache_root, cache_type) ==
    IF cache_type # "all" THEN join(cache_root, suffix[cache_type]) ELSE cache_root

----------------------------------------------------------------------------
(* The filesystem the command runs against *)

HTTP_DIR   == join(Root, <<"h","t","t","p">>)
WHEELS_DIR == join(Root, <<"w","h","e","e","l","s">>)

Locations == {HTTP_DIR, WHEELS_DIR}

W_FOO == join(WHEELS_DIR, FOO_WHL)
W_TXT == join(WHEELS_DIR, FOO_TXT)
W_BAR == join(join(WHEELS_DIR, SUBDIR), BAR_WHL)
H_FOO == join(HTTP_DIR, FOO_WHL)
H_AB  == join(join(HTTP_DIR, SUBDIR), AB)

(* every path a file may live at, in the order a directory walk meets them *)
WalkOrder == <<W_FOO, W_TXT, W_BAR, H_FOO, H_AB>>

AllPaths == { WalkOrder[k] : k \in 1..Len(WalkOrder) }

LockCandidates == {W_FOO, H_AB}

FileSize(p) == IF p = W_TXT THEN 0 ELSE Len(p)

Under(loc, p) ==
    /\ Len(p) > Len(loc) + 1
    /\ SubSeq(p, 1, Len(loc) + 1) = loc \o <<"/">>

FilesUnder(loc, files) == { p \in files : Under(loc, p) }

RECURSIVE SumSizes(_)
SumSizes(S) ==
    IF S = {} THEN 0
    ELSE LET p == CHOOSE q \in S : TRUE
         IN  FileSize(p) + SumSizes(S \ {p})

(* os.path.basename: what follows the last separator *)
RECURSIVE basename(_)
basename(p) ==
    IF \E k \in 1..Len(p) : p[k] = "/"
    THEN basename(Tail(p))
    ELSE p

(* fnmatch.fnmatch on POSIX for patterns made of literals, "*" and "?":    *)
(* "*" matches any run of characters, the separator included.              *)
RECURSIVE GlobAt(_, _, _, _)
GlobAt(s, p, a, b) ==
    IF b > Len(p) THEN a > Len(s)
    ELSE IF p[b] = "*"
         THEN GlobAt(s, p, a, b + 1) \/ (a <= Len(s) /\ GlobAt(s, p, a + 1, b))
         ELSE /\ a <= Len(s)
              /\ (p[b] = "?" \/ p[b] = s[a])
              /\ GlobAt(s, p, a + 1, b + 1)

fnmatch(name, pat) == GlobAt(name, pat, 1, 1)

fnmatch_filter(names, pat) ==
    LET Keep(n) == fnmatch(n, pat) IN SelectSeq(names, Keep)

WHL == <<"*",".","w","h","l">>

islink(loc) == kind[loc] = "symlink"

(* os.path.isdir follows symbolic links *)
isdir(loc) == kind[loc] \in {"dir", "symlink"}

(* pip.utils.filesystem.find_files: the files below path whose basename    *)
(* matches pattern, in walk order; nothing when path does not exist.       *)
find_files(path, pattern) ==
    LET Hit(p) == p \in fs /\ Under(path, p) /\ fnmatch(basename(p), pattern)
    IN  SelectSeq(WalkOrder, Hit)

(* pip.utils.filesystem.tree_statistics *)
tree_statistics(path) ==
    LET below == FilesUnder(path, fs)
    IN  [files |-> Cardinality(below), size |-> SumSizes(below)]

(* character order of the strings compared by list.sort() *)
Alphabet == <<".", "a", "b", "d", "f", "h", "l", "o", "r", "t", "w", "x">>

Ord(c) == CHOOSE k \in 1..Len(Alphabet) : Alphabet[k] = c

RECURSIVE LexLess(_, _)
LexLess(s, t) ==
    IF s = <<>> THEN t # <<>>
    ELSE IF t = <<>> THEN FALSE
    ELSE IF Head(s) = Head(t) THEN LexLess(Tail(s), Tail(t))
    ELSE Ord(Head(s)) < Ord(Head(t))

RECURSIVE Insert(_, _)
Insert(x, sortedSeq) ==
    IF sortedSeq = <<>> THEN <<x>>
    ELSE IF LexLess(Head(sortedSeq), x)
         THEN <<Head(sortedSeq)>> \o Insert(x, Tail(sortedSeq))
         ELSE <<x>> \o sortedSeq

RECURSIVE sort(_)
sort(s) == IF s = <<>> THEN <<>> ELSE Insert(Head(s), sort(Tail(s)))

(* os.linesep.join *)
RECURSIVE linesep_join(_)
linesep_join(names) ==
    IF names = <<>> THEN <<>>
    ELSE IF Len(names) = 1 THEN Head(names)
    ELSE Head(names) \o <<"\n">> \o linesep_join(Tail(names))

Basenames(paths) == [k \in 1..Len(paths) |-> basename(paths[k])]

Range(s) == { s[k] : k \in 1..Len(s) }

----------------------------------------------------------------------------
(* State after the command object is built, before run() is called *)

Init ==
    /\ kind \in [Locations -> {"dir", "symlink", "file", "absent"}]
    /\ fs \in SUBSET AllPaths
    /\ \A p \in fs : \E loc \in Locations : Under(loc, p) /\ isdir(loc)
    /\ locked \in SUBSET (fs \cap LockCandidates)
    /\ pc = "idle"
    /\ action = "none"
    /\ ctype = "wheel"
    /\ targets = <<>>
    /\ i = 0
    /\ matches = <<>>
    /\ value = SUCCESS
    /\ result = "unset"
    /\ raised = ""
    /\ log = <<>>
    /\ ops = <<>>
    /\ fs0 = fs
    /\ kind0 = kind
    /\ raced = {}

Invoke(a, t, tg) ==
    /\ pc = "idle"
    /\ action' = a
    /\ ctype' = t
    /\ targets' = tg

Op(name, arg, pat, found, ok) ==
    [op |-> name, arg |-> arg, pat |-> pat, found |-> found, ok |-> ok]

Msg(level, msg, arg) == [level |-> level, msg |-> msg, arg |-> arg]

Raise(exc) ==
    /\ raised' = exc
    /\ pc' = "done"

Return(v) ==
    /\ result' = v
    /\ pc' = "done"

(* for cache_type in caches: the types an aggregating action walks through *)
Caches_reversed(t) == IF t = "all" THEN <<"wheel", "http">> ELSE <<t>>

Caches_http_only(t) == IF t = "all" THEN <<"http">> ELSE <<t>>

Caches(t) == IF t = "all" THEN <<"http", "wheel">> ELSE <<t>>

----------------------------------------------------------------------------
(* run(): an args list that names no action *)

run_usage_error ==
    \E a \in ActionNames \ actions, t \in cache_types :
        /\ Invoke(a, t, <<>>)
        /\ Raise("CommandError")
        /\ UNCHANGED <<fs, kind, locked, i, matches, value, result, log, ops,
                       fs0, kind0, raced>>

(* action_info *)
InfoBlock(cache_type) ==
    LET location == get_cache_location(Root, cache_type)
        stats    == tree_statistics(location)
    IN  [name     |-> IF cache_type = "wheel" THEN "Wheel cache" ELSE "HTTP cache",
         location |-> location,
         files    |-> stats.files,
         size     |-> stats.size]

action_info ==
    \E t \in cache_types :
        LET caches == Caches(t)
            blocks == [k \in 1..Len(caches) |-> InfoBlock(caches[k])]
            walks  == [k \in 1..Len(caches) |->
                         Op("walk", get_cache_location(Root, caches[k]), <<>>, <<>>, TRUE)]
        IN  /\ Invoke("info", t, <<>>)
            /\ ops' = ops \o walks
            /\ log' = Append(log, [level |-> "info", msg |-> "Info",
                                   arg |-> <<>>, blocks |-> blocks])
            /\ Return(SUCCESS)
            /\ UNCHANGED <<fs, kind, locked, i, matches, value, raised,
                           fs0, kind0, raced>>

(* action_list *)
action_list_late_check ==
    \E t \in cache_types :
        LET cache_location == get_cache_location(Root, "wheel")
            found  == find_files(cache_location, WHL)
            wheels == sort(Basenames(found))
        IN  /\ Invoke("list", t, <<>>)
            /\ ops' = Append(ops, Op("find", cache_location, WHL, found, TRUE))
            /\ IF t # "wheel"
               THEN /\ Raise("CommandError")
                    /\ UNCHANGED <<log, result>>
               ELSE /\ log' = Append(log, Msg("info", "List", linesep_join(wheels)))
                    /\ result' = "None"
                    /\ pc' = "done"
                    /\ UNCHANGED raised
            /\ UNCHANGED <<fs, kind, locked, i, matches, value, fs0, kind0, raced>>

action_list ==
    \E t \in cache_types :
        /\ Invoke("list", t, <<>>)
        /\ IF t # "wheel"
           THEN /\ Raise("CommandError")
                /\ UNCHANGED <<log, ops, result>>
           ELSE LET cache_location == get_cache_location(Root, "wheel")
                    found  == find_files(cache_location, WHL)
                    wheels == sort(Basenames(found))
                IN  /\ ops' = Append(ops, Op("find", cache_location, WHL, found, TRUE))
                    /\ log' = Append(log, Msg("info", "List", linesep_join(wheels)))
                    \* the method ends without a return statement
                    /\ result' = "None"
                    /\ pc' = "done"
                    /\ UNCHANGED raised
        /\ UNCHANGED <<fs, kind, locked, i, matches, value, fs0, kind0, raced>>

----------------------------------------------------------------------------
(* action_rm *)

(* find_files(cache_location, target) narrowed by fnmatch.filter(.., "*.whl") *)
rm_matches_unfiltered(cache_location, target) ==
    find_files(cache_location, target)

rm_matches(cache_location, target) ==
    fnmatch_filter(find_files(cache_location, target), WHL)

(* os.unlink(match) succeeds when the file is still there and may be removed *)
unlink_ok(p) == p \in fs /\ p \notin locked

action_rm ==
    \E t \in cache_types, tg \in SeqsUpTo(Patterns, MaxTargets) :
        /\ Invoke("rm", t, tg)
        /\ IF t # "wheel" \/ Len(tg) = 0
           THEN /\ Raise("CommandError")
                /\ UNCHANGED <<i, value>>
           ELSE /\ value' = SUCCESS
                /\ i' = 1
                /\ pc' = "rm_loop"
                /\ UNCHANGED raised
        /\ UNCHANGED <<fs, kind, locked, matches, result, log, ops, fs0, kind0, raced>>

(* top of "for target in args" with a target left: discover its matches *)
rm_target_keeps_status ==
    /\ pc = "rm_loop"
    /\ i <= Len(targets)
    /\ LET cache_location == get_cache_location(Root, "wheel")
           target == targets[i]
           found  == rm_matches(cache_location, target)
       IN  /\ ops' = Append(ops, Op("find", cache_location, target, found, TRUE))
           /\ IF found = <<>>
              THEN /\ log' = Append(log, Msg("warning", "No match found for", target))
                   /\ i' = i + 1
                   /\ UNCHANGED <<matches, pc, value>>
              ELSE /\ matches' = found
                   /\ pc' = "rm_unlink"
                   /\ UNCHANGED <<log, value, i>>
    /\ UNCHANGED <<fs, kind, locked, action, ctype, targets, result, raised,
                   fs0, kind0, raced>>

rm_target ==
    /\ pc = "rm_loop"
    /\ i <= Len(targets)
    /\ LET cache_location == get_cache_location(Root, "wheel")
           target == targets[i]
           found  == rm_matches(cache_location, target)
       IN  /\ ops' = Append(ops, Op("find", cache_location, target, found, TRUE))
           /\ IF found = <<>>
              THEN /\ log' = Append(log, Msg("warning", "No match found for", target))
                   /\ value' = ERROR
                   /\ i' = i + 1
                   /\ UNCHANGED <<matches, pc>>
              ELSE /\ matches' = found
                   /\ pc' = "rm_unlink"
                   /\ UNCHANGED <<log, value, i>>
    /\ UNCHANGED <<fs, kind, locked, action, ctype, targets, result, raised,
                   fs0, kind0, raced>>

(* "for match in matches": unlink the next match, OSError caught per file *)
rm_unlink_aborts ==
    /\ pc = "rm_unlink"
    /\ LET match == Head(matches)
       IN  IF unlink_ok(match)
           THEN /\ fs' = fs \ {match}
                /\ log' = Append(log, Msg("info", "Removed", match))
                /\ ops' = Append(ops, Op("unlink", match, <<>>, <<>>, TRUE))
                /\ matches' = Tail(matches)
                /\ IF Tail(matches) = <<>>
                   THEN pc' = "rm_loop" /\ i' = i + 1
                   ELSE UNCHANGED <<pc, i>>
                /\ UNCHANGED <<value, raised>>
           ELSE /\ ops' = Append(ops, Op("unlink", match, <<>>, <<>>, FALSE))
                /\ Raise("OSError")
                /\ UNCHANGED <<fs, log, matches, i, value>>
    /\ UNCHANGED <<kind, locked, action, ctype, targets, result, fs0, kind0, raced>>

rm_unlink ==
    /\ pc = "rm_unlink"
    /\ LET match == Head(matches)
       IN  /\ IF unlink_ok(match)
              THEN /\ fs' = fs \ {match}
                   /\ log' = Append(log, Msg("info", "Removed", match))
                   /\ ops' = Append(ops, Op("unlink", match, <<>>, <<>>, TRUE))
                   /\ UNCHANGED value
              ELSE /\ log' = Append(log, Msg("warning", "Could not remove", match))
                   /\ ops' = Append(ops, Op("unlink", match, <<>>, <<>>, FALSE))
                   /\ value' = ERROR
                   /\ UNCHANGED fs
           /\ matches' = Tail(matches)
           /\ IF Tail(matches) = <<>>
              THEN pc' = "rm_loop" /\ i' = i + 1
              ELSE UNCHANGED <<pc, i>>
    /\ UNCHANGED <<kind, locked, action, ctype, targets, result, raised,
                   fs0, kind0, raced>>

(* "return value" once every target has been taken *)
rm_return ==
    /\ pc = "rm_loop"
    /\ i > Len(targets)
    /\ Return(value)
    /\ UNCHANGED <<fs, kind, locked, action, ctype, targets, i, matches, value,
                   raised, log, ops, fs0, kind0, raced>>

----------------------------------------------------------------------------
(* action_purge *)

(* islink(cache_location) or not isdir(cache_location) *)
purge_skips_follows_links(cache_location) == ~isdir(cache_location)

purge_skips(cache_location) ==
    islink(cache_location) \/ ~isdir(cache_location)

(* pip.utils.rmtree raises OSError when an entry below the tree cannot be  *)
(* removed; shutil.rmtree also refuses a path that is a symbolic link.     *)
rmtree_fails(cache_location) ==
    \/ islink(cache_location)
    \/ FilesUnder(cache_location, fs) \cap locked # {}

action_purge ==
    \E t \in cache_types :
        /\ Invoke("purge", t, <<>>)
        /\ value' = SUCCESS
        /\ i' = 1
        /\ pc' = "purge_loop"
        /\ UNCHANGED <<fs, kind, locked, matches, result, raised, log, ops,
                       fs0, kind0, raced>>

(* one pass of "for cache_type in caches" *)
purge_type_propagates ==
    /\ pc = "purge_loop"
    /\ i <= Len(Caches(ctype))
    /\ LET cache_location == get_cache_location(Root, Caches(ctype)[i])
           below == FilesUnder(cache_location, fs)
       IN  IF purge_skips(cache_location)
           THEN /\ log' = Append(log, Msg("info", "is not a directory; skipping",
                                          cache_location))
                /\ ops' = Append(ops, Op("islink", cache_location, <<>>, <<>>, TRUE))
                /\ i' = i + 1
                /\ UNCHANGED <<fs, kind, value, pc, raised>>
           ELSE IF rmtree_fails(cache_location)
           THEN /\ \E kept \in SUBSET below :
                       /\ below \cap locked \subseteq kept
                       /\ fs' = (fs \ below) \cup kept
                /\ ops' = Append(ops, Op("rmtree", cache_location, <<>>, <<>>, FALSE))
                /\ Raise("OSError")
                /\ UNCHANGED <<kind, log, value, i>>
           ELSE /\ fs' = fs \ below
                /\ kind' = [kind EXCEPT ![cache_location] = "absent"]
                /\ log' = Append(log, Msg("info", "Removed", cache_location))
                /\ ops' = Append(ops, Op("rmtree", cache_location, <<>>, <<>>, TRUE))
                /\ i' = i + 1
                /\ UNCHANGED <<value, pc, raised>>
    /\ UNCHANGED <<locked, action, ctype, targets, matches, result,
                   fs0, kind0, raced>>

purge_type ==
    /\ pc = "purge_loop"
    /\ i <= Len(Caches(ctype))
    /\ LET cache_location == get_cache_location(Root, Caches(ctype)[i])
           below == FilesUnder(cache_location, fs)
       IN  IF purge_skips(cache_location)
           THEN /\ log' = Append(log, Msg("info", "is not a directory; skipping",
                                          cache_location))
                /\ ops' = Append(ops, Op("islink", cache_location, <<>>, <<>>, TRUE))
                /\ UNCHANGED <<fs, kind, value>>
           ELSE IF rmtree_fails(cache_location)
           THEN /\ \E kept \in SUBSET below :
                       /\ below \cap locked \subseteq kept
                       /\ fs' = (fs \ below) \cup kept
                /\ log' = Append(log, Msg("warning", "Could not remove", cache_location))
                /\ ops' = Append(ops, Op("rmtree", cache_location, <<>>, <<>>, FALSE))
                /\ value' = ERROR
                /\ UNCHANGED kind
           ELSE /\ fs' = fs \ below
                /\ kind' = [kind EXCEPT ![cache_location] = "absent"]
                /\ log' = Append(log, Msg("info", "Removed", cache_location))
                /\ ops' = Append(ops, Op("rmtree", cache_location, <<>>, <<>>, TRUE))
                /\ UNCHANGED value
    /\ i' = i + 1
    /\ UNCHANGED <<locked, pc, action, ctype, targets, matches, result, raised,
                   fs0, kind0, raced>>

(* "return value" once every cache type has been taken *)
purge_return ==
    /\ pc = "purge_loop"
    /\ i > Len(Caches(ctype))
    /\ Return(value)
    /\ UNCHANGED <<fs, kind, locked, action, ctype, targets, i, matches, value,
                   raised, log, ops, fs0, kind0, raced>>

----------------------------------------------------------------------------
(* Another process deletes a wheel that rm has found and not yet unlinked. *)
(* The command takes no lock, so this can happen between any two steps.    *)

concurrent_delete ==
    /\ pc = "rm_unlink"
    /\ \E p \in Range(matches) \cap fs :
           /\ fs' = fs \ {p}
           /\ raced' = raced \cup {p}
    /\ UNCHANGED <<kind, locked, pc, action, ctype, targets, i, matches, value,
                   result, raised, log, ops, fs0, kind0>>

----------------------------------------------------------------------------

Next ==
    \/ run_usage_error
    \/ action_info
    \/ action_list
    \/ action_rm
    \/ rm_target
    \/ rm_unlink
    \/ rm_return
    \/ action_purge
    \/ purge_type
    \/ purge_return

(* the command alone on the cache directories *)
Spec == Init /\ [][Next]_vars

NextRace == Next \/ concurrent_delete

(* the command with a concurrent writer on the wheel cache *)
SpecRace == Init /\ [][NextRace]_vars

----------------------------------------------------------------------------
(* Vocabulary of the properties, stated without the command's own helpers *)

TypeDir(t) == IF t = "http" THEN HTTP_DIR ELSE WHEELS_DIR

TypesOf(t) == IF t = "all" THEN {"http", "wheel"} ELSE {t}

IsWhl(name) ==
    /\ Len(name) >= 4
    /\ SubSeq(name, Len(name) - 3, Len(name)) = <<".","w","h","l">>

(* file p is a wheel whose basename the target pattern t matches *)
WheelMatch(p, t) == fnmatch(basename(p), t) /\ IsWhl(basename(p))

WheelsAtStart == FilesUnder(WHEELS_DIR, fs0)

UsageErrorInput ==
    \/ action \notin actions
    \/ action \in {"list", "rm"} /\ ctype # "wheel"
    \/ action = "rm" /\ targets = <<>>

FailedUnlink == \E k \in 1..Len(ops) : ops[k].op = "unlink" /\ ~ops[k].ok

FailedRmtree == \E k \in 1..Len(ops) : ops[k].op = "rmtree" /\ ~ops[k].ok

Warned(msg, arg) ==
    \E k \in 1..Len(log) :
        log[k].level = "warning" /\ log[k].msg = msg /\ log[k].arg = arg

(* rm took every target, in order, and tried to unlink every match of each *)
RmTookEveryTarget ==
    LET IsFind(o) == o.op = "find"
        finds == SelectSeq(ops, IsFind)
    IN  /\ [k \in 1..Len(finds) |-> finds[k].pat] = targets
        /\ \A k \in 1..Len(ops) :
              ops[k].op = "find" =>
                 /\ k + Len(ops[k].found) <= Len(ops)
                 /\ \A j \in 1..Len(ops[k].found) :
                       /\ ops[k + j].op = "unlink"
                       /\ ops[k + j].arg = ops[k].found[j]

(* target number k finds no wheel when its turn comes: each wheel it would *)
(* match was removed for an earlier target                                 *)
ZeroAtTurn(k) ==
    \A p \in WheelsAtStart :
        WheelMatch(p, targets[k]) =>
            /\ p \notin locked
            /\ \E j \in 1..(k - 1) : WheelMatch(p, targets[j])

RmFinished == pc = "done" /\ action = "rm" /\ ctype = "wheel" /\ targets # <<>>

----------------------------------------------------------------------------
(* C1: rm with type wheel and at least one target takes every target in    *)
(* order without aborting, and returns ERROR exactly when some target had  *)
(* no "*.whl" match at its turn (also when an earlier target of the call   *)
(* removed its files) or some unlink raised OSError; SUCCESS otherwise.    *)
C1_RmStatus ==
    RmFinished =>
        /\ raised = ""
        /\ result \in {SUCCESS, ERROR}
        /\ RmTookEveryTarget
        /\ (result = ERROR) <=>
              \/ \E k \in 1..Len(ops) : ops[k].op = "find" /\ ops[k].found = <<>>
              \/ FailedUnlink
        /\ (result = ERROR) <=>
              \/ \E k \in 1..Len(targets) : ZeroAtTurn(k)
              \/ \E k \in 1..Len(targets) :
                    \E p \in WheelsAtStart \cap locked : WheelMatch(p, targets[k])

C1_Witness ==
    /\ RmFinished
    /\ Len(targets) = 2
    /\ targets[1] = targets[2]
    /\ W_FOO \in fs0 \ fs
    /\ ~FailedUnlink
    /\ result = ERROR

(* C2: purge with type all tries the http location and then the wheel      *)
(* location; a failed removal of http still leaves wheel attempted; the    *)
(* status is ERROR exactly when an attempted recursive removal failed.     *)
C2_PurgeAllOrder ==
    (pc = "done" /\ action = "purge" /\ ctype = "all") =>
        /\ raised = ""
        /\ Len(ops) = 2
        /\ ops[1].arg = HTTP_DIR
        /\ ops[2].arg = WHEELS_DIR
        /\ \A k \in 1..2 :
              ops[k].op = (IF kind0[ops[k].arg] = "dir" THEN "rmtree" ELSE "islink")
        /\ (result = ERROR) <=> FailedRmtree
        /\ (result = ERROR) <=>
              \E loc \in Locations :
                  kind0[loc] = "dir" /\ FilesUnder(loc, fs0) \cap locked # {}
        /\ result \in {SUCCESS, ERROR}

C2_Witness ==
    /\ pc = "done" /\ action = "purge" /\ ctype = "all"
    /\ ops[1].op = "rmtree" /\ ~ops[1].ok
    /\ ops[2].op = "rmtree" /\ ops[2].ok
    /\ FilesUnder(WHEELS_DIR, fs0) # {}
    /\ FilesUnder(WHEELS_DIR, fs) = {}
    /\ result = ERROR

(* C3: purge skips a location that is a symbolic link or no existing       *)
(* directory: nothing of that type is removed, the skip is logged at info  *)
(* level and never makes the status a failure; purge of a type whose       *)
(* directory does not exist returns SUCCESS.                               *)
C3_PurgeSkip ==
    (pc = "done" /\ action = "purge") =>
        /\ \A t \in TypesOf(ctype) :
              kind0[TypeDir(t)] # "dir" =>
                 /\ FilesUnder(TypeDir(t), fs) = FilesUnder(TypeDir(t), fs0)
                 /\ kind[TypeDir(t)] = kind0[TypeDir(t)]
                 /\ ~\E k \in 1..Len(ops) :
                        ops[k].op = "rmtree" /\ ops[k].arg = TypeDir(t)
                 /\ \E k \in 1..Len(log) :
                        /\ log[k].level = "info"
                        /\ log[k].msg = "is not a directory; skipping"
                        /\ log[k].arg = TypeDir(t)
                 /\ ~Warned("Could not remove", TypeDir(t))
        /\ (\A t \in TypesOf(ctype) : kind0[TypeDir(t)] # "dir") => result = SUCCESS
        /\ result = ERROR =>
              \E t \in TypesOf(ctype) :
                  /\ kind0[TypeDir(t)] = "dir"
                  /\ FilesUnder(TypeDir(t), fs0) \cap locked # {}

C3_Witness ==
    /\ pc = "done" /\ action = "purge" /\ ctype = "http"
    /\ kind0[HTTP_DIR] = "symlink"
    /\ FilesUnder(HTTP_DIR, fs) = {H_FOO, H_AB}
    /\ H_AB \in locked
    /\ result = SUCCESS

(* C4, as stated: after purge with type all, statistics on <root>/http   *)
(* and on <root>/wheels both report 0 files and 0 bytes.                   *)
C4_PurgeAllEmpties ==
    (pc = "done" /\ action = "purge" /\ ctype = "all") =>
        \A loc \in Locations :
            tree_statistics(loc) = [files |-> 0, size |-> 0]

(* C4, amended: after purge with type all, a location that was not a       *)
(* symbolic link and held no file whose removal is refused is gone or      *)
(* empty (0 files, 0 bytes); a symbolic link keeps its files, and a        *)
(* failed removal keeps at least the files that could not be removed.      *)
C4_PurgeAllEmptiesRemovable ==
    (pc = "done" /\ action = "purge" /\ ctype = "all") =>
        \A loc \in Locations :
            /\ (kind0[loc] # "symlink" /\ FilesUnder(loc, fs0) \cap locked = {}) =>
                  /\ tree_statistics(loc) = [files |-> 0, size |-> 0]
                  /\ kind[loc] \in {"absent", "file"}
            /\ kind0[loc] = "symlink" =>
                  FilesUnder(loc, fs) = FilesUnder(loc, fs0)
            /\ FilesUnder(loc, fs0) \cap locked \subseteq fs

C4_Witness ==
    /\ pc = "done" /\ action = "purge" /\ ctype = "all"
    /\ kind0[HTTP_DIR] = "dir" /\ kind0[WHEELS_DIR] = "dir"
    /\ fs0 = AllPaths
    /\ fs = {}
    /\ result = SUCCESS

(* C5: a usage error (no action or an unknown one; list or rm with a type  *)
(* other than wheel; rm without targets) is raised before the filesystem   *)
(* is read or written: nothing was walked, searched, unlinked or removed.  *)
C5_UsageErrorFirst ==
    /\ (pc # "idle" /\ UsageErrorInput) =>
          /\ pc = "done"
          /\ raised = "CommandError"
          /\ result = "unset"
    /\ raised = "CommandError" =>
          /\ UsageErrorInput
          /\ ops = <<>>
          /\ log = <<>>
          /\ fs = fs0
          /\ kind = kind0

C5_Witness ==
    /\ pc = "done"
    /\ action = "list" /\ ctype = "http"
    /\ raised = "CommandError"
    /\ FilesUnder(WHEELS_DIR, fs) # {}
    /\ FilesUnder(HTTP_DIR, fs) # {}

(* C6: an action on one cache type leaves the other type's files alone:    *)
(* purge of http does not change <root>/wheels, purge of wheel and rm do   *)
(* not change <root>/http, and info and list change no file.               *)
C6_OtherTypeUntouched ==
    pc # "idle" =>
        /\ (action = "purge" /\ ctype = "http") =>
              /\ FilesUnder(WHEELS_DIR, fs) = FilesUnder(WHEELS_DIR, fs0)
              /\ kind[WHEELS_DIR] = kind0[WHEELS_DIR]
        /\ ((action = "purge" /\ ctype = "wheel") \/ action = "rm") =>
              /\ FilesUnder(HTTP_DIR, fs) = FilesUnder(HTTP_DIR, fs0)
              /\ kind[HTTP_DIR] = kind0[HTTP_DIR]
        /\ action \in {"info", "list"} => (fs = fs0 /\ kind = kind0)

C6_Witness ==
    /\ pc = "done" /\ action = "purge" /\ ctype = "wheel"
    /\ fs0 = AllPaths
    /\ fs = {H_FOO, H_AB}
    /\ kind[WHEELS_DIR] = "absent"
    /\ kind[HTTP_DIR] = "dir"

(* C7: when no unlink fails, rm deletes from the wheel location exactly    *)
(* the files whose basename matches some target and also "*.whl"; every    *)
(* other file stays.                                                       *)
C7_RmDeletesExactly ==
    (RmFinished /\ ~FailedUnlink) =>
        /\ fs \subseteq fs0
        /\ fs0 \ fs =
              { p \in WheelsAtStart :
                    \E k \in 1..Len(targets) : WheelMatch(p, targets[k]) }

C7_Witness ==
    /\ RmFinished /\ ~FailedUnlink
    /\ targets = << <<"f","o","o","*">> >>
    /\ WheelsAtStart = {W_FOO, W_TXT, W_BAR}
    /\ FilesUnder(WHEELS_DIR, fs) = {W_TXT, W_BAR}

(* C8: list with type wheel on an empty or absent wheel cache logs an      *)
(* empty output and returns a success result.                              *)
C8_ListEmptySucceeds ==
    (pc = "done" /\ action = "list" /\ ctype = "wheel" /\ WheelsAtStart = {}) =>
        /\ raised = ""
        /\ log = << Msg("info", "List", <<>>) >>
        /\ result = SUCCESS

(* what the code does there: the output is empty, no status is returned *)
C8_ListEmptyReturnsNone ==
    (pc = "done" /\ action = "list" /\ ctype = "wheel" /\ WheelsAtStart = {}) =>
        /\ raised = ""
        /\ log = << Msg("info", "List", <<>>) >>
        /\ result = "None"

(* C9, as stated: no exception leaves run(), whatever the action and input *)
C9_NothingEscapes ==
    pc = "done" => raised = ""

(* C9, amended: the only exception that leaves run() is the CommandError   *)
(* of a usage error.  An OSError of unlink (rm) or of the recursive        *)
(* removal (purge) is caught: it is logged as a warning and the status     *)
(* becomes ERROR.  info and list have no failure path: info returns        *)
(* SUCCESS and list returns nothing.                                       *)
C9_OnlyUsageErrorEscapes ==
    /\ raised \in {"", "CommandError"}
    /\ raised = "CommandError" <=> (pc # "idle" /\ UsageErrorInput)
    /\ \A k \in 1..Len(ops) :
          (ops[k].op \in {"unlink", "rmtree"} /\ ~ops[k].ok) =>
              /\ Warned("Could not remove", ops[k].arg)
              /\ value = ERROR
    /\ (pc = "done" /\ raised = "") =>
          /\ action \in {"rm", "purge"} => result = value
          /\ action = "info" => result = SUCCESS
          /\ action = "list" => result = "None"

C9_Witness ==
    /\ pc = "done" /\ action = "purge" /\ ctype = "all"
    /\ ops[1].op = "rmtree" /\ ~ops[1].ok
    /\ raised = ""
    /\ result = ERROR
    /\ H_AB \in fs

(* C10: when another process deletes a wheel between rm finding it and rm  *)
(* unlinking it, rm does not stop: the unlink failure is logged for that   *)
(* file, the status is ERROR, and the other matches and targets are still  *)
(* taken.                                                                  *)
C10_RaceIsPerFileFailure ==
    /\ (action = "rm" /\ raced # {}) => raised = ""
    /\ (RmFinished /\ raced # {}) =>
          /\ result = ERROR
          /\ RmTookEveryTarget
          /\ \A p \in raced :
                /\ \E k \in 1..Len(ops) :
                      ops[k].op = "unlink" /\ ops[k].arg = p /\ ~ops[k].ok
                /\ Warned("Could not remove", p)
          /\ \A p \in WheelsAtStart \ (locked \cup raced) :
                (\E k \in 1..Len(targets) : WheelMatch(p, targets[k])) =>
                    p \notin fs

C10_Witness ==
    /\ RmFinished
    /\ raced = {W_FOO}
    /\ Len(targets) = 2
    /\ \E k \in 1..Len(ops) :
          /\ ops[k].op = "unlink" /\ ops[k].arg = W_FOO /\ ~ops[k].ok
          /\ \E j \in (k + 1)..Len(ops) :
                ops[j].op = "unlink" /\ ops[j].arg = W_BAR /\ ops[j].ok
    /\ result = ERROR

====
